---- MODULE Spec2Model ----
(***************************************************************************)
(* Model of the Drone Services API (src/main.py): the document normalizer  *)
(* serialize_doc and the HTTP route handlers over a two-collection         *)
(* document store.                                                         *)
(*                                                                         *)
(* Python values are tagged records [t, s, n]: t is the Python type, s the *)
(* text of a str, n the numeric payload (an ObjectId's 12 bytes read as a  *)
(* number, a datetime's fields).  A dict is a function from keys to such   *)
(* values.  The non-ASCII status glyphs of test_database are written       *)
(* [ok], [x] and [!].                                                      *)
(***************************************************************************)
EXTENDS Integers, Sequences, FiniteSets, TLC

VARIABLES
    db,           \* database.db: "None" or "Database" (set at process start)
    env,          \* os.environ: a function from the names that are set to their values
    collections,  \* the store: collection name -> sequence of documents
    nextOid,      \* the store's identifier generator
    op,           \* the handler that served the last request
    status,       \* HTTP status of the last response
    body,         \* body of the last response
    raised,       \* messages of the exceptions raised by store calls in the last request
    calls,        \* store calls made by the last request
    docs,         \* the fetched documents (local `docs` / `stored`) when the handler returns
    lastPost,     \* per collection: what the last successful POST sent and got back
    sphase,       \* normalizer harness: "ready", "once", "twice"
    sorig,        \* normalizer harness: the document as passed in
    sheap,        \* normalizer harness: the objects after the call, address -> dict
    sret,         \* normalizer harness: address of the returned mapping
    sout2         \* normalizer harness: serialize_doc applied to its own result

apiVars == <<db, env, collections, nextOid, op, status, body, raised, calls, docs, lastPost>>
serVars == <<sphase, sorig, sheap, sret, sout2>>
vars == <<db, env, collections, nextOid, op, status, body, raised, calls, docs, lastPost,
          sphase, sorig, sheap, sret, sout2>>

----------------------------------------------------------------------------
(* Bounds *)

MaxInserts == 2
MaxSerOid == 2

----------------------------------------------------------------------------
(* Python values *)

StrV(x) == [t |-> "str", s |-> x, n |-> <<>>]
IntV(k) == [t |-> "int", s |-> "", n |-> <<k>>]
OidV(k) == [t |-> "ObjectId", s |-> "", n |-> <<k>>]
DatetimeV(y, mo, d, h, mi, sec, us, tz) ==
    [t |-> "datetime", s |-> "", n |-> <<y, mo, d, h, mi, sec, us, tz>>]
DateV(y, mo, d) == [t |-> "date", s |-> "", n |-> <<y, mo, d>>]

Min(a, b) == IF a < b THEN a ELSE b

Digit(d) == SubSeq("0123456789abcdef", d + 1, d + 1)

RECURSIVE Numeral(_, _, _)
\* k written in the given base, zero-padded to w digits
Numeral(k, base, w) ==
    IF w = 0 THEN "" ELSE Numeral(k \div base, base, w - 1) \o Digit(k % base)

\* str(ObjectId): the 12 bytes as 24 hexadecimal digits
str_oid(v) == Numeral(v.n[1], 16, 24)

\* datetime.isoformat() / date.isoformat()
isoformat(v) ==
    LET date == Numeral(v.n[1], 10, 4) \o "-" \o Numeral(v.n[2], 10, 2)
                  \o "-" \o Numeral(v.n[3], 10, 2)
    IN  IF v.t = "date" THEN date
        ELSE date \o "T" \o Numeral(v.n[4], 10, 2) \o ":" \o Numeral(v.n[5], 10, 2)
                  \o ":" \o Numeral(v.n[6], 10, 2)
                  \o (IF v.n[7] # 0 THEN "." \o Numeral(v.n[7], 10, 6) ELSE "")
                  \o (IF v.n[8] = 1 THEN "+00:00" ELSE "")

isinstance_ObjectId(v) == v.t = "ObjectId"
hasattr_isoformat(v) == v.t \in {"datetime", "date"}

----------------------------------------------------------------------------
(* serialize_doc, on a heap of two objects: "doc" (the argument) and "out" *)

\* a variant that binds out to the argument itself
CopyDocAlias(heap) == [ret |-> "doc", heap |-> heap]

\* out = {**doc}: a new dict object holding doc's items
CopyDoc(heap) == [ret |-> "out", heap |-> heap @@ ("out" :> heap["doc"])]

\* a variant that always pops, with a default, and stringifies what it got
PopIdUnguarded(heap, a) ==
    LET out == heap[a]
    IN  [heap EXCEPT ![a] =
            [k \in (DOMAIN out \ {"_id"}) \cup {"id"} |->
                IF k = "id"
                THEN (IF "_id" \in DOMAIN out /\ isinstance_ObjectId(out["_id"])
                      THEN StrV(str_oid(out["_id"]))
                      ELSE StrV("None"))
                ELSE out[k]]]

\* a variant that reads the identifier without popping it
PopIdKeep(heap, a) ==
    LET out == heap[a]
    IN  IF "_id" \in DOMAIN out /\ isinstance_ObjectId(out["_id"])
        THEN [heap EXCEPT ![a] =
                [k \in DOMAIN out \cup {"id"} |->
                    IF k = "id" THEN StrV(str_oid(out["_id"])) ELSE out[k]]]
        ELSE heap

\* if "_id" in out and isinstance(out["_id"], ObjectId): out["id"] = str(out.pop("_id"))
PopId(heap, a) ==
    LET out == heap[a]
    IN  IF "_id" \in DOMAIN out /\ isinstance_ObjectId(out["_id"])
        THEN [heap EXCEPT ![a] =
                [k \in (DOMAIN out \ {"_id"}) \cup {"id"} |->
                    IF k = "id" THEN StrV(str_oid(out["_id"])) ELSE out[k]]]
        ELSE heap

\* a variant that stringifies every value that is not already a str
ConvertAll(heap, a) ==
    [heap EXCEPT ![a] =
        [k \in DOMAIN heap[a] |->
            IF hasattr_isoformat(heap[a][k]) THEN StrV(isoformat(heap[a][k]))
            ELSE IF heap[a][k].t = "int" THEN StrV(Numeral(heap[a][k].n[1], 10, 1))
            ELSE heap[a][k]]]

\* for k, v in list(out.items()): if hasattr(v, "isoformat"): out[k] = v.isoformat()
ConvertTimestamps(heap, a) ==
    [heap EXCEPT ![a] =
        [k \in DOMAIN heap[a] |->
            IF hasattr_isoformat(heap[a][k]) THEN StrV(isoformat(heap[a][k]))
            ELSE heap[a][k]]]

\* One call of serialize_doc(doc): the objects afterwards and the address returned
serialize_call(doc) ==
    LET c == CopyDoc("doc" :> doc)
    IN  [ret |-> c.ret, heap |-> ConvertTimestamps(PopId(c.heap, c.ret), c.ret)]

\* The value serialize_doc(doc) returns
serialize_doc(doc) == LET r == serialize_call(doc) IN r.heap[r.ret]

----------------------------------------------------------------------------
(* The document store (database.create_document, database.get_documents)   *)

CollectionNames == <<"appointment", "galleryimage">>

\* Messages of the exceptions a store call can raise; the second is longer
\* than the 50 characters test_database keeps
ErrMsgs ==
    {"connection refused",
     "ServerSelectionTimeoutError: localhost:27017: [Errno 111] Connection refused"}

\* What a store call raises: nothing, or one exception
FaultInputs == {<<>>} \cup {<<m>> : m \in ErrMsgs}

Perms(n) == {p \in [1..n -> 1..n] : \A i, j \in 1..n : p[i] = p[j] => i = j}

\* create_document(collection_name, data): the entity's fields plus a fresh
\* store-assigned identifier, appended to the named collection; returns the
\* identifier's string form.  A fault raises and inserts nothing.
create_document(collection_name, data, fault) ==
    IF db = "None"
    THEN [raised |-> <<"Database not available">>, ret |-> "",
          store |-> collections, next |-> nextOid]
    ELSE IF fault # <<>>
    THEN [raised |-> fault, ret |-> "", store |-> collections, next |-> nextOid]
    ELSE [raised |-> <<>>, ret |-> str_oid(OidV(nextOid)),
          store |-> [collections EXCEPT ![collection_name] =
                        Append(@, data @@ ("_id" :> OidV(nextOid)))],
          next |-> nextOid + 1]

\* get_documents(collection_name): every document of the collection, in no
\* particular order (perm)
get_documents(collection_name, fault, perm) ==
    IF db = "None"
    THEN [raised |-> <<"Database not available">>, ret |-> <<>>]
    ELSE IF fault # <<>>
    THEN [raised |-> fault, ret |-> <<>>]
    ELSE [raised |-> <<>>,
          ret |-> [i \in 1..Len(collections[collection_name]) |->
                      collections[collection_name][perm[i]]]]

\* db.list_collection_names(): the collections that hold documents
list_collection_names ==
    SelectSeq(CollectionNames, LAMBDA c : collections[c] # <<>>)

StoreCall(fn, coll) == [fn |-> fn, coll |-> coll]

----------------------------------------------------------------------------
(* Request bodies (schemas.Appointment, schemas.GalleryImage)              *)

Appointments ==
    {[name |-> StrV("Ann"), email |-> StrV("ann@example.com"),
      service |-> StrV("Aerial Photography"), preferred_date |-> StrV("2025-03-01")],
     [name |-> StrV("Bob"), email |-> StrV("bob@example.com"),
      service |-> StrV("Roof Inspection"), preferred_date |-> StrV("2025-04-15")]}

DEFAULT_GALLERY ==
    << [url |-> StrV("https://images.unsplash.com/photo-1504194104404-433180773017?q=80&w=1200&auto=format&fit=crop"),
        title |-> StrV("Coastal Cliffs"), category |-> StrV("Nature")],
       [url |-> StrV("https://images.unsplash.com/photo-1501785888041-af3ef285b470?q=80&w=1200&auto=format&fit=crop"),
        title |-> StrV("Mountain Range"), category |-> StrV("Landscapes")],
       [url |-> StrV("https://images.unsplash.com/photo-1500530855697-b586d89ba3ee?q=80&w=1200&auto=format&fit=crop"),
        title |-> StrV("City From Above"), category |-> StrV("Real Estate")],
       [url |-> StrV("https://images.unsplash.com/photo-1477959858617-67f85cf4f1df?q=80&w=1200&auto=format&fit=crop"),
        title |-> StrV("Golden Fields"), category |-> StrV("Agriculture")] >>

\* Images a client posts: a copy of the first built-in item, and a new one
GalleryImages ==
    {DEFAULT_GALLERY[1],
     [url |-> StrV("https://example.com/harbor.jpg"),
      title |-> StrV("Harbor"), category |-> StrV("Real Estate")]}

----------------------------------------------------------------------------
(* Route handlers                                                          *)

NoStore == /\ raised' = <<>>
           /\ calls' = <<>>
           /\ docs' = <<>>
           /\ UNCHANGED <<db, env, collections, nextOid, lastPost>>

\* GET /
read_root ==
    /\ op' = "read_root"
    /\ status' = 200
    /\ body' = [message |-> "Drone Services Backend is running"]
    /\ NoStore
    /\ UNCHANGED serVars

\* GET /api/hello
hello ==
    /\ op' = "hello"
    /\ status' = 200
    /\ body' = [message |-> "Hello from the Drone Services API"]
    /\ NoStore
    /\ UNCHANGED serVars

\* GET /schema: one JSON schema per entity type
get_schema ==
    /\ op' = "get_schema"
    /\ status' = 200
    /\ body' = [schemas |-> [k \in {"user", "product", "appointment", "galleryimage"} |->
                               k \o ".model_json_schema()"]]
    /\ NoStore
    /\ UNCHANGED serVars

TruncLen == 50
SliceLen == 10

\* str(e)[:50]
Truncate(msg) == SubSeq(msg, 1, Min(TruncLen, Len(msg)))

\* "Set" if os.getenv(name) else "Not Set": unset and empty both count as not set
EnvFlag(name) ==
    IF name \in DOMAIN env /\ env[name] # "" THEN "[ok] Set" ELSE "[x] Not Set"

\* a variant whose inner handler swallows the exception and leaves the field as it was
test_database_response_swallow(name, nameRaises, listRaises) ==
    LET r0 == [backend |-> "[ok] Running", database |-> "[x] Not Available",
               database_url |-> "None", database_name |-> "None",
               connection_status |-> "Not Connected", collections |-> <<>>]
        r1 == [r0 EXCEPT !.database = "[ok] Available",
                         !.database_url = EnvFlag("DATABASE_URL")]
        r2 == [r1 EXCEPT !.database_name = IF name # "" THEN name ELSE "[ok] Connected",
                         !.connection_status = "Connected"]
        r3 == IF listRaises # <<>>
              THEN r2
              ELSE [r2 EXCEPT !.collections =
                                  SubSeq(list_collection_names, 1,
                                         Min(SliceLen, Len(list_collection_names))),
                              !.database = "[ok] Connected & Working"]
        r4 == IF db # "None"
              THEN (IF nameRaises # <<>>
                    THEN [r1 EXCEPT !.database = "[x] Error: " \o Truncate(nameRaises[1])]
                    ELSE r3)
              ELSE [r0 EXCEPT !.database = "[!]  Available but not initialized"]
    IN  [r4 EXCEPT !.database_url = EnvFlag("DATABASE_URL"),
                   !.database_name = EnvFlag("DATABASE_NAME")]

\* The mapping test_database builds.  name is what getattr(db, "name", None)
\* gives ("" for a falsy value), nameRaises and listRaises what that read and
\* db.list_collection_names() raise.
test_database_response(name, nameRaises, listRaises) ==
    LET r0 == [backend |-> "[ok] Running", database |-> "[x] Not Available",
               database_url |-> "None", database_name |-> "None",
               connection_status |-> "Not Connected", collections |-> <<>>]
        r1 == [r0 EXCEPT !.database = "[ok] Available",
                         !.database_url = EnvFlag("DATABASE_URL")]
        r2 == [r1 EXCEPT !.database_name = IF name # "" THEN name ELSE "[ok] Connected",
                         !.connection_status = "Connected"]
        r3 == IF listRaises # <<>>
              THEN [r2 EXCEPT !.database =
                                  "[!]  Connected but Error: " \o Truncate(listRaises[1])]
              ELSE [r2 EXCEPT !.collections =
                                  SubSeq(list_collection_names, 1,
                                         Min(SliceLen, Len(list_collection_names))),
                              !.database = "[ok] Connected & Working"]
        r4 == IF db # "None"
              THEN (IF nameRaises # <<>>
                    THEN [r1 EXCEPT !.database = "[x] Error: " \o Truncate(nameRaises[1])]
                    ELSE r3)
              ELSE [r0 EXCEPT !.database = "[!]  Available but not initialized"]
    IN  [r4 EXCEPT !.database_url = EnvFlag("DATABASE_URL"),
                   !.database_name = EnvFlag("DATABASE_NAME")]

\* GET /test
test_database ==
    \E name \in {"", "drone"}, nameRaises \in FaultInputs, listRaises \in FaultInputs :
        /\ op' = "test_database"
        /\ status' = 200
        /\ body' = test_database_response(name, nameRaises, listRaises)
        /\ raised' = IF db = "None" THEN <<>>
                     ELSE IF nameRaises # <<>> THEN nameRaises ELSE listRaises
        /\ calls' = IF db # "None" /\ nameRaises = <<>>
                    THEN <<StoreCall("list_collection_names", "")>> ELSE <<>>
        /\ docs' = <<>>
        /\ UNCHANGED <<db, env, collections, nextOid, lastPost>>
        /\ UNCHANGED serVars

\* The fetched documents as they are once each has been through serialize_doc
AfterSerialize(fetched) ==
    [i \in 1..Len(fetched) |-> serialize_call(fetched[i]).heap["doc"]]

Serialized(fetched) == [i \in 1..Len(fetched) |-> serialize_doc(fetched[i])]

\* What a successful POST leaves in lastPost
Posted(coll, data, id) ==
    [lastPost EXCEPT ![coll] = <<[data |-> data, id |-> id]>>]

\* a variant that calls the store a second time when the first call raises
create_appointment_retry ==
    \E appt \in Appointments, fault \in FaultInputs, fault2 \in FaultInputs :
        LET r1 == create_document("appointment", appt, fault)
            r  == IF r1.raised # <<>> THEN create_document("appointment", appt, fault2)
                  ELSE r1
        IN  /\ r.raised # <<>> \/ nextOid <= MaxInserts
            /\ op' = "create_appointment"
            /\ collections' = r.store
            /\ nextOid' = r.next
            /\ raised' = r.raised
            /\ calls' = IF r1.raised # <<>>
                        THEN <<StoreCall("create_document", "appointment"),
                               StoreCall("create_document", "appointment")>>
                        ELSE <<StoreCall("create_document", "appointment")>>
            /\ docs' = <<>>
            /\ IF r.raised = <<>>
               THEN /\ status' = 200
                    /\ body' = [id |-> r.ret, message |-> "Appointment request received"]
                    /\ lastPost' = Posted("appointment", appt, r.ret)
               ELSE /\ status' = 500
                    /\ body' = [detail |-> r.raised[1]]
                    /\ UNCHANGED lastPost
            /\ UNCHANGED <<db, env>>
            /\ UNCHANGED serVars

\* POST /api/appointments
create_appointment ==
    \E appt \in Appointments, fault \in FaultInputs :
        LET r == create_document("appointment", appt, fault)
        IN  /\ r.raised # <<>> \/ nextOid <= MaxInserts
            /\ op' = "create_appointment"
            /\ collections' = r.store
            /\ nextOid' = r.next
            /\ raised' = r.raised
            /\ calls' = <<StoreCall("create_document", "appointment")>>
            /\ docs' = <<>>
            /\ IF r.raised = <<>>
               THEN /\ status' = 200
                    /\ body' = [id |-> r.ret, message |-> "Appointment request received"]
                    /\ lastPost' = Posted("appointment", appt, r.ret)
               ELSE /\ status' = 500
                    /\ body' = [detail |-> r.raised[1]]
                    /\ UNCHANGED lastPost
            /\ UNCHANGED <<db, env>>
            /\ UNCHANGED serVars

\* a variant that returns the fetched documents as they are
list_appointments_raw ==
    \E fault \in FaultInputs, perm \in Perms(Len(collections["appointment"])) :
        LET r == get_documents("appointment", fault, perm)
        IN  /\ op' = "list_appointments"
            /\ raised' = r.raised
            /\ calls' = <<StoreCall("get_documents", "appointment")>>
            /\ docs' = r.ret
            /\ IF r.raised = <<>>
               THEN /\ status' = 200
                    /\ body' = r.ret
               ELSE /\ status' = 500
                    /\ body' = [detail |-> r.raised[1]]
            /\ UNCHANGED <<db, env, collections, nextOid, lastPost>>
            /\ UNCHANGED serVars

\* GET /api/appointments
list_appointments ==
    \E fault \in FaultInputs, perm \in Perms(Len(collections["appointment"])) :
        LET r == get_documents("appointment", fault, perm)
        IN  /\ op' = "list_appointments"
            /\ raised' = r.raised
            /\ calls' = <<StoreCall("get_documents", "appointment")>>
            /\ docs' = AfterSerialize(r.ret)
            /\ IF r.raised = <<>>
               THEN /\ status' = 200
                    /\ body' = Serialized(r.ret)
               ELSE /\ status' = 500
                    /\ body' = [detail |-> r.raised[1]]
            /\ UNCHANGED <<db, env, collections, nextOid, lastPost>>
            /\ UNCHANGED serVars

DefaultResponse ==
    [items |-> DEFAULT_GALLERY, count |-> Len(DEFAULT_GALLERY), source |-> "default"]

\* a variant that answers a store fault the way the other handlers do
get_gallery_raise ==
    \E fault \in FaultInputs, perm \in Perms(Len(collections["galleryimage"])) :
        LET r == get_documents("galleryimage", fault, perm)
            stored_serialized == Serialized(r.ret)
        IN  /\ op' = "get_gallery"
            /\ raised' = r.raised
            /\ calls' = <<StoreCall("get_documents", "galleryimage")>>
            /\ docs' = AfterSerialize(r.ret)
            /\ IF r.raised # <<>>
               THEN /\ status' = 500
                    /\ body' = [detail |-> r.raised[1]]
               ELSE /\ status' = 200
                    /\ body' = IF stored_serialized = <<>> THEN DefaultResponse
                               ELSE [items |-> stored_serialized,
                                     count |-> Len(stored_serialized),
                                     source |-> "database"]
            /\ UNCHANGED <<db, env, collections, nextOid, lastPost>>
            /\ UNCHANGED serVars

\* a variant that always puts the built-in items in front of the stored ones
get_gallery_with_defaults ==
    \E fault \in FaultInputs, perm \in Perms(Len(collections["galleryimage"])) :
        LET r == get_documents("galleryimage", fault, perm)
            stored_serialized == DEFAULT_GALLERY \o Serialized(r.ret)
        IN  /\ op' = "get_gallery"
            /\ status' = 200
            /\ raised' = r.raised
            /\ calls' = <<StoreCall("get_documents", "galleryimage")>>
            /\ docs' = AfterSerialize(r.ret)
            /\ body' = IF r.raised # <<>> \/ r.ret = <<>> THEN DefaultResponse
                       ELSE [items |-> stored_serialized,
                             count |-> Len(stored_serialized),
                             source |-> "database"]
            /\ UNCHANGED <<db, env, collections, nextOid, lastPost>>
            /\ UNCHANGED serVars

\* GET /api/gallery
get_gallery ==
    \E fault \in FaultInputs, perm \in Perms(Len(collections["galleryimage"])) :
        LET r == get_documents("galleryimage", fault, perm)
            stored_serialized == Serialized(r.ret)
        IN  /\ op' = "get_gallery"
            /\ status' = 200
            /\ raised' = r.raised
            /\ calls' = <<StoreCall("get_documents", "galleryimage")>>
            /\ docs' = AfterSerialize(r.ret)
            /\ body' = IF r.raised # <<>> \/ stored_serialized = <<>> THEN DefaultResponse
                       ELSE [items |-> stored_serialized,
                             count |-> Len(stored_serialized),
                             source |-> "database"]
            /\ UNCHANGED <<db, env, collections, nextOid, lastPost>>
            /\ UNCHANGED serVars

\* a variant that saves by position, overwriting the collection's first document
add_gallery_image_overwrite ==
    \E img \in GalleryImages, fault \in FaultInputs :
        LET r0 == create_document("galleryimage", img, fault)
            r  == IF r0.raised = <<>> /\ collections["galleryimage"] # <<>>
                  THEN [r0 EXCEPT !.store =
                          [collections EXCEPT !["galleryimage"] =
                              [@ EXCEPT ![1] = img @@ ("_id" :> OidV(nextOid))]]]
                  ELSE r0
        IN  /\ r.raised # <<>> \/ nextOid <= MaxInserts
            /\ op' = "add_gallery_image"
            /\ collections' = r.store
            /\ nextOid' = r.next
            /\ raised' = r.raised
            /\ calls' = <<StoreCall("create_document", "galleryimage")>>
            /\ docs' = <<>>
            /\ IF r.raised = <<>>
               THEN /\ status' = 200
                    /\ body' = [id |-> r.ret, message |-> "Image added"]
                    /\ lastPost' = Posted("galleryimage", img, r.ret)
               ELSE /\ status' = 500
                    /\ body' = [detail |-> r.raised[1]]
                    /\ UNCHANGED lastPost
            /\ UNCHANGED <<db, env>>
            /\ UNCHANGED serVars

\* POST /api/gallery
add_gallery_image ==
    \E img \in GalleryImages, fault \in FaultInputs :
        LET r == create_document("galleryimage", img, fault)
        IN  /\ r.raised # <<>> \/ nextOid <= MaxInserts
            /\ op' = "add_gallery_image"
            /\ collections' = r.store
            /\ nextOid' = r.next
            /\ raised' = r.raised
            /\ calls' = <<StoreCall("create_document", "galleryimage")>>
            /\ docs' = <<>>
            /\ IF r.raised = <<>>
               THEN /\ status' = 200
                    /\ body' = [id |-> r.ret, message |-> "Image added"]
                    /\ lastPost' = Posted("galleryimage", img, r.ret)
               ELSE /\ status' = 500
                    /\ body' = [detail |-> r.raised[1]]
                    /\ UNCHANGED lastPost
            /\ UNCHANGED <<db, env>>
            /\ UNCHANGED serVars

----------------------------------------------------------------------------
(* The API as a state machine                                              *)

EnvNames == {"DATABASE_URL", "DATABASE_NAME"}

\* os.environ at process start: each name unset, set to "", or set to a value
Environments == UNION {[K -> {"", "mongodb://localhost:27017"}] : K \in SUBSET EnvNames}

Init ==
    /\ db \in {"None", "Database"}
    /\ env \in Environments
    /\ collections = [c \in {"appointment", "galleryimage"} |-> <<>>]
    /\ nextOid = 1
    /\ op = "start"
    /\ status = 0
    /\ body = <<>>
    /\ raised = <<>>
    /\ calls = <<>>
    /\ docs = <<>>
    /\ lastPost = [c \in {"appointment", "galleryimage"} |-> <<>>]
    /\ sphase = "off"
    /\ sorig = <<>>
    /\ sheap = <<>>
    /\ sret = "none"
    /\ sout2 = <<>>

Next ==
    \/ read_root
    \/ hello
    \/ get_schema
    \/ test_database
    \/ create_appointment
    \/ list_appointments
    \/ get_gallery
    \/ add_gallery_image

Spec == Init /\ [][Next]_vars

----------------------------------------------------------------------------
(* serialize_doc applied to arbitrary documents                            *)

SerKeys == {"_id", "id", "name", "created_at"}

SerValues ==
    {OidV(254 + k) : k \in 1..MaxSerOid}
    \cup {StrV("Ann"), StrV("2024-01-02T03:04:05"), IntV(7),
          DatetimeV(2024, 1, 2, 3, 4, 5, 0, 0),
          DatetimeV(2025, 11, 30, 23, 59, 58, 1234, 1),
          DateV(2024, 2, 29)}

Documents == UNION {[K -> SerValues] : K \in SUBSET SerKeys}

SerInit ==
    /\ db = "None"
    /\ env = <<>>
    /\ collections = [c \in {"appointment", "galleryimage"} |-> <<>>]
    /\ nextOid = 1
    /\ op = "start"
    /\ status = 0
    /\ body = <<>>
    /\ raised = <<>>
    /\ calls = <<>>
    /\ docs = <<>>
    /\ lastPost = [c \in {"appointment", "galleryimage"} |-> <<>>]
    /\ sphase = "ready"
    /\ sorig \in Documents
    /\ sheap = ("doc" :> sorig)
    /\ sret = "none"
    /\ sout2 = <<>>

\* out = serialize_doc(doc)
SerializeOnce ==
    /\ sphase = "ready"
    /\ LET r == serialize_call(sorig)
       IN  /\ sheap' = r.heap
           /\ sret' = r.ret
    /\ sphase' = "once"
    /\ UNCHANGED <<sorig, sout2>>
    /\ UNCHANGED apiVars

\* serialize_doc(out)
SerializeTwice ==
    /\ sphase = "once"
    /\ sout2' = serialize_doc(sheap[sret])
    /\ sphase' = "twice"
    /\ UNCHANGED <<sorig, sheap, sret>>
    /\ UNCHANGED apiVars

SerNext == SerializeOnce \/ SerializeTwice

SerSpec == SerInit /\ [][SerNext]_vars

----------------------------------------------------------------------------
(* Properties of the gallery and appointment endpoints (under Spec)        *)

Range(f) == {f[i] : i \in DOMAIN f}

\* C1: GET /api/gallery answers 200 with exactly the 4 built-in items, in
\* order, count 4 and source "default" whenever the galleryimage collection
\* is empty or the store read raised.
C1_GalleryFallback ==
    (op = "get_gallery" /\ (raised # <<>> \/ collections["galleryimage"] = <<>>))
    => /\ status = 200
       /\ body.items = DEFAULT_GALLERY
       /\ Len(body.items) = 4
       /\ body.count = 4
       /\ body.source = "default"

\* C1 case: the store read raised while the collection holds documents
C1_Witness ==
    /\ op = "get_gallery"
    /\ raised # <<>>
    /\ collections["galleryimage"] # <<>>
    /\ body.source = "default"

\* C2: after exactly one successful POST /api/gallery into an empty store, a
\* GET /api/gallery whose store read succeeds returns that one image,
\* normalized (its fields plus the string id the POST returned), count 1,
\* source "database", and none of the built-in items.
C2_OnePostThenGet ==
    (op = "get_gallery" /\ raised = <<>> /\ Len(collections["galleryimage"]) = 1)
    => /\ status = 200
       /\ body.count = 1
       /\ body.source = "database"
       /\ body.items = << lastPost["galleryimage"][1].data
                            @@ ("id" :> StrV(lastPost["galleryimage"][1].id)) >>
       /\ \A i \in DOMAIN body.items : body.items[i] \notin Range(DEFAULT_GALLERY)

\* C2 case: the one stored image has the fields of a built-in item
C2_Witness ==
    /\ op = "get_gallery"
    /\ raised = <<>>
    /\ Len(collections["galleryimage"]) = 1
    /\ lastPost["galleryimage"][1].data = DEFAULT_GALLERY[1]
    /\ body.source = "database"

\* C3: after one successful POST /api/appointments into an empty store, a
\* GET /api/appointments whose store read succeeds returns a one-element list:
\* the posted fields plus the string id the POST returned, and no _id.
C3_PostThenList ==
    (op = "list_appointments" /\ raised = <<>> /\ Len(collections["appointment"]) = 1)
    => /\ status = 200
       /\ Len(body) = 1
       /\ body[1] = lastPost["appointment"][1].data
                      @@ ("id" :> StrV(lastPost["appointment"][1].id))
       /\ body[1]["id"].t = "str"
       /\ Len(body[1]["id"].s) = 24
       /\ "_id" \notin DOMAIN body[1]

\* C3 case: one appointment stored, listed while the gallery holds an image too
C3_Witness ==
    /\ op = "list_appointments"
    /\ raised = <<>>
    /\ Len(collections["appointment"]) = 1
    /\ Len(collections["galleryimage"]) = 1
    /\ Len(body) = 1

FaultHandlers == {"create_appointment", "list_appointments", "add_gallery_image"}
PostHandlers == {"create_appointment", "add_gallery_image"}

SuccessValues == {"[ok] Available", "[ok] Connected & Working"}

ErrorIndicator(x) == Len(x) >= 3 /\ SubSeq(x, 1, 3) \in {"[!]", "[x]"}

\* C6: GET /test always answers 200 with the status mapping; when the
\* connection object is absent or a store read raised, the database field is
\* an error indicator and not a success value; both environment flags are
\* reported from the environment either way.
C6_DiagnosticsContained ==
    op = "test_database"
    => /\ status = 200
       /\ body.backend = "[ok] Running"
       /\ (db = "None" \/ raised # <<>>)
            => (ErrorIndicator(body.database) /\ body.database \notin SuccessValues)
       /\ \A v \in EnvNames :
            LET flag == IF v = "DATABASE_URL" THEN body.database_url
                        ELSE body.database_name
            IN  /\ flag \in {"[ok] Set", "[x] Not Set"}
                /\ flag = "[ok] Set" <=> (v \in DOMAIN env /\ env[v] # "")

\* C6 case: listing the collection names raised a long message, with
\* DATABASE_URL set to the empty string
C6_Witness ==
    /\ op = "test_database"
    /\ db = "Database"
    /\ raised # <<>>
    /\ Len(raised[1]) > TruncLen
    /\ calls # <<>>
    /\ "DATABASE_URL" \in DOMAIN env
    /\ env["DATABASE_URL"] = ""
    /\ Len(body.database) = Len("[!]  Connected but Error: ") + TruncLen

GetHandlers == {"read_root", "hello", "get_schema", "test_database",
                "list_appointments", "get_gallery"}

IsPrefix(a, b) == Len(a) <= Len(b) /\ SubSeq(b, 1, Len(a)) = a

StoredIds(store) ==
    UNION {{store[c][i]["_id"] : i \in 1..Len(store[c])} : c \in DOMAIN store}

\* The step inserted exactly one document, with an identifier the store had
\* not used, at the end of collection c, and left the other collection alone
InsertedInto(c) ==
    /\ Len(collections'[c]) = Len(collections[c]) + 1
    /\ SubSeq(collections'[c], 1, Len(collections[c])) = collections[c]
    /\ isinstance_ObjectId(collections'[c][Len(collections'[c])]["_id"])
    /\ collections'[c][Len(collections'[c])]["_id"] \notin StoredIds(collections)
    /\ \A o \in DOMAIN collections \ {c} : collections'[o] = collections[o]

\* C10: over any interleaving of requests each collection is append-only; a
\* successful POST adds exactly one document with a fresh identifier to its
\* own collection and leaves the other unchanged; a GET changes no collection.
C10_AppendOnly ==
    [][/\ \A c \in DOMAIN collections : IsPrefix(collections[c], collections'[c])
       /\ op' \in GetHandlers => collections' = collections
       /\ (op' = "create_appointment" /\ status' = 200) => InsertedInto("appointment")
       /\ (op' = "add_gallery_image" /\ status' = 200) => InsertedInto("galleryimage")
      ]_vars

\* C10 case: both collections hold documents, with interleaved identifiers,
\* and a GET has just been served
C10_Witness ==
    /\ op = "get_gallery"
    /\ Len(collections["galleryimage"]) = 1
    /\ Len(collections["appointment"]) = 1
    /\ collections["galleryimage"][1]["_id"] = OidV(1)
    /\ collections["appointment"][1]["_id"] = OidV(2)

----------------------------------------------------------------------------
(* Properties of serialize_doc (under SerSpec)                             *)

HasObjectId(doc) == "_id" \in DOMAIN doc /\ isinstance_ObjectId(doc["_id"])
NoTimestamp(doc) == \A k \in DOMAIN doc : ~hasattr_isoformat(doc[k])

\* C4 as stated: every document with an _id, of whatever type, comes out with
\* a string id (the stringified identifier) and without _id.
C4_AnyIdentifier ==
    (sphase # "ready" /\ "_id" \in DOMAIN sorig)
    => /\ "id" \in DOMAIN sheap[sret]
       /\ sheap[sret]["id"].t = "str"
       /\ isinstance_ObjectId(sorig["_id"])
            => sheap[sret]["id"].s = str_oid(sorig["_id"])
       /\ "_id" \notin DOMAIN sheap[sret]

\* C4, amended: every document whose _id is an ObjectId, with or without an
\* id field of its own, comes out with id equal to the identifier's 24-digit
\* hexadecimal string and without _id.
C4_ObjectIdentifier ==
    (sphase # "ready" /\ HasObjectId(sorig))
    => /\ "id" \in DOMAIN sheap[sret]
       /\ sheap[sret]["id"] = StrV(str_oid(sorig["_id"]))
       /\ Len(sheap[sret]["id"].s) = 24
       /\ "_id" \notin DOMAIN sheap[sret]

\* C4 case: an ObjectId _id beside an id field holding something else
C4_Witness ==
    /\ sphase = "once"
    /\ HasObjectId(sorig)
    /\ "id" \in DOMAIN sorig
    /\ sorig["id"] = IntV(7)
    /\ sheap[sret]["id"].t = "str"

\* C7: serialize_doc(serialize_doc(d)) = serialize_doc(d) for every document d.
C7_Idempotent ==
    sphase = "twice" => sout2 = sheap[sret]

\* C7 case: the first application converted an identifier and a timestamp
C7_Witness ==
    /\ sphase = "twice"
    /\ HasObjectId(sorig)
    /\ "created_at" \in DOMAIN sorig
    /\ sorig["created_at"].t = "datetime"
    /\ sheap[sret]["created_at"].t = "str"
    /\ sout2 # sorig

\* C8 as stated: without timestamp values, every input key other than _id
\* (id included) keeps its value, and only those keys and id appear.
C8_AllFieldsKept ==
    (sphase # "ready" /\ NoTimestamp(sorig))
    => /\ \A k \in DOMAIN sorig \ {"_id"} :
            k \in DOMAIN sheap[sret] /\ sheap[sret][k] = sorig[k]
       /\ DOMAIN sheap[sret] \subseteq (DOMAIN sorig \ {"_id"}) \cup {"id"}

\* C8, amended: without timestamp values, every input key other than _id and
\* id keeps its value; an input id keeps its value unless the document has an
\* ObjectId _id (then id is the stringified identifier); an _id that is not an
\* ObjectId stays in place; no other key appears.
C8_OtherFieldsKept ==
    (sphase # "ready" /\ NoTimestamp(sorig))
    => /\ \A k \in DOMAIN sorig \ {"_id", "id"} :
            k \in DOMAIN sheap[sret] /\ sheap[sret][k] = sorig[k]
       /\ ("id" \in DOMAIN sorig /\ ~HasObjectId(sorig))
            => ("id" \in DOMAIN sheap[sret] /\ sheap[sret]["id"] = sorig["id"])
       /\ ("_id" \in DOMAIN sorig /\ ~HasObjectId(sorig))
            => ("_id" \in DOMAIN sheap[sret] /\ sheap[sret]["_id"] = sorig["_id"])
       /\ DOMAIN sheap[sret] =
            IF HasObjectId(sorig) THEN (DOMAIN sorig \ {"_id"}) \cup {"id"}
            ELSE DOMAIN sorig

\* C8 case: an ObjectId _id, an id and two other fields, none a timestamp
C8_Witness ==
    /\ sphase = "once"
    /\ NoTimestamp(sorig)
    /\ HasObjectId(sorig)
    /\ DOMAIN sorig = SerKeys
    /\ sorig["name"] = IntV(7)
    /\ sheap[sret]["name"] = IntV(7)

\* C9: serialize_doc leaves its argument as it was (same keys and values,
\* _id and native timestamps included) and returns another object.
C9_InputUntouched ==
    sphase # "ready"
    => /\ sheap["doc"] = sorig
       /\ sret # "doc"
       /\ sret \in DOMAIN sheap

\* C9 case: the result differs from the argument in identifier and timestamp
C9_Witness ==
    /\ sphase = "once"
    /\ HasObjectId(sorig)
    /\ \E k \in DOMAIN sorig : hasattr_isoformat(sorig[k])
    /\ sheap[sret] # sheap["doc"]
    /\ HasObjectId(sheap["doc"])

====
